---- MODULE Spec2Model ----
\* Alcohol Consumption Tracker: the state machine of the React component App
\* (src/src/App.jsx, the fixed one-hour variant, and src/unnamed/part_000, the
\* variant with a configurable waiting time, decimal amounts and suggestions)
\* over its localStorage documents.
EXTENDS Integers, Sequences, FiniteSets, TLC

VARIABLES
    variant,            \* "simple" (src/src/App.jsx) or "rich" (src/unnamed/part_000)
    now,                \* the wall clock, in ticks (TicksPerMinute ticks to a minute)
    alcoholTracker,     \* localStorage item 'alcoholTracker', as Object.entries of the parsed document
    userId,             \* useState: text of the User ID field
    showNewUserPrompt,  \* useState
    currentUser,        \* useState: <<>> for null, <<id>> for a selected ID
    amount,             \* useState: value of the amount field (a string)
    records,            \* useState: the displayed record list
    suggestions,        \* useState (rich variant)
    isInputActive,      \* useState (rich variant)
    waitingTime,        \* localStorage item 'waitingTime' (rich variant): <<>> when absent, else <<text>>
    waitingMinutes,     \* useState (rich variant); the simple variant's fixed hour, in minutes
    view,               \* what the last render derived from records and the clock
    download,           \* the last file handed to the browser for download, <<>> when none
    crashed,            \* the render threw and React unmounted the component
    horizon,            \* the instant at which the observed session ends
    creationOrder,      \* history: user IDs in the order they first entered the store
    lastOp              \* history: the handler that ran last and its outcome

vars == <<variant, now, alcoholTracker, userId, showNewUserPrompt, currentUser,
          amount, records, suggestions, isInputActive, waitingTime, waitingMinutes,
          view, download, crashed, horizon, creationOrder, lastOp>>

-----------------------------------------------------------------------------
\* Bounds of the model.

\* Clock resolution: ticks in one minute (Date has millisecond resolution; any
\* value above 1 gives instants that are not whole minutes apart).
TicksPerMinute == 2
\* A session is observed for this many ticks.
MaxNow == 1
\* No more than this many user entries are created.
MaxUsers == 2
\* No more than this many records are appended over all users.
MaxRecords == 2

MinutesPerHour == 60
HoursPerDay == 24

-----------------------------------------------------------------------------
\* JavaScript strings, as sequences of one-character strings.

UpperLetters == <<"A","B","C","D","E","F","G","H","I","J","K","L","M",
                  "N","O","P","Q","R","S","T","U","V","W","X","Y","Z">>
LowerLetters == <<"a","b","c","d","e","f","g","h","i","j","k","l","m",
                  "n","o","p","q","r","s","t","u","v","w","x","y","z">>
Digits == <<"0","1","2","3","4","5","6","7","8","9">>
WhiteSpace == {" "}

IsDigit(c) == \E i \in 1..10 : Digits[i] = c
DigitValue(c) == (CHOOSE i \in 1..10 : Digits[i] = c) - 1

\* String.prototype.toLowerCase, one character
LowerChar(c) ==
    IF \E i \in 1..26 : UpperLetters[i] = c
    THEN LowerLetters[CHOOSE i \in 1..26 : UpperLetters[i] = c]
    ELSE c

\* String.prototype.toLowerCase
ToLowerCase(s) == [i \in 1..Len(s) |-> LowerChar(s[i])]

\* String.prototype.includes
Includes(s, t) ==
    \E i \in 0..(Len(s) - Len(t)) : SubSeq(s, i + 1, i + Len(t)) = t

\* String.prototype.trim
RECURSIVE TrimStart(_)
TrimStart(s) ==
    IF Len(s) > 0 /\ Head(s) \in WhiteSpace THEN TrimStart(Tail(s)) ELSE s
RECURSIVE TrimEnd(_)
TrimEnd(s) ==
    IF Len(s) > 0 /\ s[Len(s)] \in WhiteSpace
    THEN TrimEnd(SubSeq(s, 1, Len(s) - 1)) ELSE s
Trim(s) == TrimEnd(TrimStart(s))

\* ToBoolean of a string
TruthyString(s) == Len(s) > 0

\* Value of a string of decimal digits
RECURSIVE DigitsValue(_)
DigitsValue(s) ==
    IF Len(s) = 0 THEN 0
    ELSE 10 * DigitsValue(SubSeq(s, 1, Len(s) - 1)) + DigitValue(s[Len(s)])

\* The longest prefix of s made of decimal digits
RECURSIVE DigitPrefix(_)
DigitPrefix(s) ==
    IF Len(s) > 0 /\ IsDigit(Head(s)) THEN <<Head(s)>> \o DigitPrefix(Tail(s)) ELSE <<>>

AllDigits(s) == \A i \in 1..Len(s) : IsDigit(s[i])

-----------------------------------------------------------------------------
\* Numbers typed into the amount field. An amount is held in tenths of a
\* millilitre (the finest step either form accepts is 0.1), so 2.5 ml is 25.

TenthsPerMl == 10

\* The Number NaN (parseInt of a string with no leading digits) and the JSON
\* null it is written as. No parsed amount is negative: the form blocks a
\* value below its min="0" before the handler runs.
NaN == -1
JSONNull == -2

\* a + b of two amounts: NaN absorbs, null counts as 0
Plus(a, b) ==
    IF a = NaN \/ b = NaN THEN NaN
    ELSE (IF a = JSONNull THEN 0 ELSE a) + (IF b = JSONNull THEN 0 ELSE b)

RECURSIVE Pow10(_)
Pow10(n) == IF n <= 0 THEN 1 ELSE 10 * Pow10(n - 1)

\* The parts of a decimal literal at the start of s:
\*   sign? digits? ('.' digits?)? (('e'|'E') sign? digits)?
\* read left to right: the sign, the integer digits ip, whether a '.'
\* follows, the fraction digits fp, whether a well-formed exponent follows
\* (ed, its digits, is then non-empty), its value ex, and the rest of s.
LiteralEnd(plus, neg, ip, dot, fp, s2, eneg, s4, ed) ==
    [ plus |-> plus, neg |-> neg, ip |-> ip, dot |-> dot, fp |-> fp,
      mantOK |-> Len(ip) > 0 \/ Len(fp) > 0,
      expOK |-> Len(ed) > 0,
      ex |-> IF eneg THEN 0 - DigitsValue(ed) ELSE DigitsValue(ed),
      rest |-> IF Len(ed) > 0 THEN SubSeq(s4, Len(ed) + 1, Len(s4)) ELSE s2 ]

LiteralExponent(plus, neg, ip, dot, fp, s2) ==
    LET hasE   == Len(s2) > 0 /\ s2[1] \in {"e", "E"}
        s3     == IF hasE THEN Tail(s2) ELSE s2
        esign  == hasE /\ Len(s3) > 0 /\ s3[1] \in {"-", "+"}
        s4     == IF esign THEN Tail(s3) ELSE s3
    IN  LiteralEnd(plus, neg, ip, dot, fp, s2, esign /\ s3[1] = "-", s4,
                   IF hasE THEN DigitPrefix(s4) ELSE <<>>)

LiteralAfterFraction(plus, neg, ip, dot, fp, s1) ==
    LiteralExponent(plus, neg, ip, dot, fp,
                    IF dot THEN SubSeq(s1, 2 + Len(fp), Len(s1)) ELSE s1)

LiteralFraction(plus, neg, ip, s1) ==
    LET dot == Len(s1) > 0 /\ s1[1] = "."
    IN  LiteralAfterFraction(plus, neg, ip, dot,
                             IF dot THEN DigitPrefix(Tail(s1)) ELSE <<>>, s1)

LiteralAfterInteger(plus, neg, ip, s0) ==
    LiteralFraction(plus, neg, ip, SubSeq(s0, Len(ip) + 1, Len(s0)))

Literal(s) ==
    LET signed == Len(s) > 0 /\ s[1] \in {"-", "+"}
        neg    == Len(s) > 0 /\ s[1] = "-"
        s0     == IF signed THEN Tail(s) ELSE s
    IN  LiteralAfterInteger(signed /\ ~neg, neg, DigitPrefix(s0), s0)

\* The value of a literal in tenths, and whether it is a whole number of tenths.
LiteralMantissa(l) == DigitsValue(l.ip \o l.fp)
LiteralScaled(neg, mantissa, shift) ==
    LET m == IF shift >= 0 THEN mantissa * Pow10(shift) ELSE mantissa \div Pow10(0 - shift)
    IN  IF neg THEN 0 - m ELSE m
LiteralTenths(l) == LiteralScaled(l.neg, LiteralMantissa(l), l.ex - Len(l.fp) + 1)
IsScaled(mantissa, shift) == shift >= 0 \/ mantissa % Pow10(0 - shift) = 0
LiteralIsTenths(l) == IsScaled(LiteralMantissa(l), l.ex - Len(l.fp) + 1)

\* parseFloat(s): the longest decimal literal at the start of s (after leading
\* white space), NaN when there is none.
ParseFloatLiteral(l) == IF l.mantOK THEN LiteralTenths(l) ELSE NaN
ParseFloat(s) == ParseFloatLiteral(Literal(TrimStart(s)))

\* parseInt(s, 10): the sign and the leading decimal digits only, NaN when
\* there are none; a fraction or an exponent is not read.
ParseIntLiteral(l) ==
    IF Len(l.ip) = 0 THEN NaN
    ELSE IF l.neg THEN 0 - DigitsValue(l.ip) ELSE DigitsValue(l.ip)
ParseInt(s) == ParseIntLiteral(Literal(TrimStart(s)))

\* HTML "valid floating-point number": what an <input type="number"> keeps as
\* its value; anything else is sanitized to the empty string.
ValidLiteral(l) ==
    /\ ~l.plus
    /\ l.mantOK
    /\ l.dot => Len(l.fp) > 0
    /\ l.rest = <<>>
ValidFloatingPoint(s) == Len(s) > 0 /\ ValidLiteral(Literal(s))

\* An <input type="number">'s value for the text typed into it
NumberInputValue(raw) == IF ValidFloatingPoint(raw) THEN raw ELSE <<>>

-----------------------------------------------------------------------------
\* The parsed 'alcoholTracker' document: a plain object from user ID to record
\* list, held as its Object.entries, i.e. in own-property-key order.

NoUser == <<>>
Some(id) == <<id>>

ProtoKey == <<"_","_","p","r","o","t","o","_","_">>
ConstructorKey == <<"c","o","n","s","t","r","u","c","t","o","r">>

\* What a state holds when it was set to Object.prototype instead of an array.
NotAnArray == << [timestamp |-> NaN, amount |-> NaN] >>

\* Object.keys(o)
ObjectKeys(o) == [i \in 1..Len(o) |-> o[i].key]
HasOwn(o, k) == \E i \in 1..Len(o) : o[i].key = k
GetOwn(o, k) == o[CHOOSE i \in 1..Len(o) : o[i].key = k].value

\* An array index: the canonical decimal form of an integer below 2^32 - 1.
\* Own keys that are array indices are enumerated first, in ascending numeric
\* order, before the other keys, which follow in insertion order.
IsArrayIndex(k) ==
    /\ Len(k) > 0
    /\ AllDigits(k)
    /\ Len(k) > 1 => k[1] # "0"
    /\ Len(k) <= 9

\* Whether a new key k is enumerated before the existing key j.
EnumeratedBefore(k, j) ==
    IsArrayIndex(k) /\ (~IsArrayIndex(j) \/ DigitsValue(k) < DigitsValue(j))

\* Defining an own data property: in place when k is an own key, otherwise
\* at k's place in the key order.
DefineOwn(o, k, v) ==
    IF HasOwn(o, k)
    THEN [i \in 1..Len(o) |-> IF o[i].key = k THEN [key |-> k, value |-> v] ELSE o[i]]
    ELSE LET at == Cardinality({i \in 1..Len(o) : ~EnumeratedBefore(k, o[i].key)})
         IN  SubSeq(o, 1, at) \o <<[key |-> k, value |-> v]>> \o SubSeq(o, at + 1, Len(o))

\* users[k], by the kind of value read: an own record list, or a member
\* inherited from Object.prototype ('constructor' is the function Object,
\* '__proto__' the prototype object itself), or undefined. Of the inherited
\* names only these two are among the IDs typed in this model.
ReadKind(o, k) ==
    IF HasOwn(o, k) THEN "array"
    ELSE IF k = ProtoKey THEN "object"
    ELSE IF k = ConstructorKey THEN "function"
    ELSE "undefined"

\* users[k] = v: '__proto__' reaches the inherited setter, which replaces the
\* object's prototype and defines no own property.
Assign(o, k, v) == IF k = ProtoKey THEN o ELSE DefineOwn(o, k, v)

\* JSON.parse(JSON.stringify(users)): keys keep their order, timestamps are
\* strings, and a NaN amount is written as null.
JSONRoundTrip(o) ==
    [i \in 1..Len(o) |->
        [key |-> o[i].key,
         value |-> [j \in 1..Len(o[i].value) |->
                      [timestamp |-> o[i].value[j].timestamp,
                       amount |-> IF o[i].value[j].amount = NaN THEN JSONNull
                                  ELSE o[i].value[j].amount]]]]

\* getStoredUsers / saveUsers
getStoredUsers == alcoholTracker
saveUsers(users) == alcoholTracker' = JSONRoundTrip(users)

RECURSIVE TotalRecords(_)
TotalRecords(o) ==
    IF Len(o) = 0 THEN 0 ELSE Len(Head(o).value) + TotalRecords(Tail(o))


-----------------------------------------------------------------------------
\* Dates (date-fns), on instants counted in ticks.

TicksPerHour == MinutesPerHour * TicksPerMinute
TicksPerDay == HoursPerDay * TicksPerHour

\* Math.trunc(n / d) for d > 0
TruncDiv(n, d) == IF n >= 0 THEN n \div d ELSE 0 - ((0 - n) \div d)

\* differenceInMinutes(left, right): the full minutes between the two
\* instants, rounded towards zero
differenceInMinutes(left, right) == TruncDiv(left - right, TicksPerMinute)

addMinutes(t, m) == t + m * TicksPerMinute
addHours(t, h) == t + h * TicksPerHour
subHours(t, h) == t - h * TicksPerHour

\* format(date, 'yyyy-MM-dd') and format(date, 'HH:mm:ss'): the day an instant
\* falls on, and the instant within that day
FormatDate(t) == t \div TicksPerDay
FormatTime(t) == t % TicksPerDay

\* records.reduce((sum, record) => sum + record.amount, 0)
RECURSIVE SumAmounts(_)
SumAmounts(recs) ==
    IF Len(recs) = 0 THEN 0
    ELSE Plus(SumAmounts(SubSeq(recs, 1, Len(recs) - 1)), recs[Len(recs)].amount)

\* records.filter(record => new Date(record.timestamp) > cutoffTime)
RECURSIVE FilterAfterInclusive(_, _)
FilterAfterInclusive(recs, cutoffTime) ==
    IF Len(recs) = 0 THEN <<>>
    ELSE (IF Head(recs).timestamp >= cutoffTime THEN <<Head(recs)>> ELSE <<>>)
         \o FilterAfterInclusive(Tail(recs), cutoffTime)
RECURSIVE FilterAfter(_, _)
FilterAfter(recs, cutoffTime) ==
    IF Len(recs) = 0 THEN <<>>
    ELSE (IF Head(recs).timestamp > cutoffTime THEN <<Head(recs)>> ELSE <<>>)
         \o FilterAfter(Tail(recs), cutoffTime)

calculateRecentConsumption(recs, hoursAgo) ==
    LET cutoffTime == subHours(now, hoursAgo)
    IN  SumAmounts(FilterAfter(recs, cutoffTime))

\* getWaitingTime(lastConsumptionTime, waitingMinutes); the simple variant
\* takes no waitingMinutes and adds one hour
getWaitingTime(lastConsumptionTime, minutes) ==
    LET waitTimeAfterLast ==
            IF variant = "simple" THEN addHours(lastConsumptionTime, 1)
            ELSE addMinutes(lastConsumptionTime, minutes)
        waitMinutes == differenceInMinutes(waitTimeAfterLast, now)
    IN  IF waitMinutes > 0 THEN waitMinutes ELSE 0

\* The values the body of App derives on each render. An absent value (null)
\* is <<>>, a present one <<value>>.
Derive(user, recs, minutes) ==
    LET lastConsumptionTime ==
            IF Len(recs) > 0 THEN <<recs[Len(recs)].timestamp>> ELSE <<>>
        minutesSinceLastConsumption ==
            IF lastConsumptionTime # <<>>
            THEN <<differenceInMinutes(now, lastConsumptionTime[1])>> ELSE <<>>
    IN  [ renderedAt |-> now,
          totalConsumption |-> SumAmounts(recs),
          last2HoursConsumption |-> calculateRecentConsumption(recs, 2),
          lastConsumptionTime |-> lastConsumptionTime,
          minutesSinceLastConsumption |-> minutesSinceLastConsumption,
          waitingTimeNeeded |->
              IF lastConsumptionTime # <<>>
              THEN getWaitingTime(lastConsumptionTime[1], minutes) ELSE 0,
          warning |->
              /\ user # <<>> /\ Len(user[1]) > 0
              /\ lastConsumptionTime # <<>>
              /\ minutesSinceLastConsumption[1] < minutes ]

-----------------------------------------------------------------------------
\* The component App.

\* ToBoolean(currentUser): null and the empty string are falsy
Truthy(u) == u # NoUser /\ TruthyString(u[1])

\* The suggestions effect: Object.keys(users).filter(id =>
\* id.toLowerCase().includes(userId.toLowerCase())) when userId.trim() is
\* non-empty, otherwise [].
RECURSIVE FilterMatches(_, _)
FilterMatches(keys, uid) ==
    IF Len(keys) = 0 THEN <<>>
    ELSE (IF Includes(ToLowerCase(Head(keys)), ToLowerCase(uid)) THEN <<Head(keys)>> ELSE <<>>)
         \o FilterMatches(Tail(keys), uid)

SuggestWithoutTrim(users, uid) ==
    IF TruthyString(uid) THEN FilterMatches(ObjectKeys(users), uid) ELSE <<>>
Suggest(users, uid) ==
    IF TruthyString(Trim(uid)) THEN FilterMatches(ObjectKeys(users), uid) ELSE <<>>

\* The effect runs after a render in which userId changed (rich variant only).
SuggestionsAfter(newUserId, set) ==
    IF variant = "rich" /\ newUserId # userId
    THEN Suggest(getStoredUsers, newUserId)
    ELSE set

\* The browser's validation of the amount field before the form's submit
\* event: the field is not required; a value must be >= min="0" and on the
\* step (1 in the simple variant, 0.1 in the rich one).
FormValidLiteral(l) ==
    /\ ~(l.neg /\ LiteralMantissa(l) # 0)
    /\ LiteralIsTenths(l)
    /\ variant = "simple" => LiteralTenths(l) % TenthsPerMl = 0
FormValid(a) == a = <<>> \/ FormValidLiteral(Literal(a))

\* new Date().toISOString(), read back with new Date(timestamp): the same
\* instant, at the clock's resolution.
ToISOString(t) == t

\* parseInt(amount, 10) in the simple variant, parseFloat(amount) in the rich
\* one; the amount in tenths
MlToTenths(n) == IF n = NaN THEN NaN ELSE n * TenthsPerMl
ParseAmount(a) == IF variant = "simple" THEN MlToTenths(ParseInt(a)) ELSE ParseFloat(a)

DefaultWaitingMinutes == 60

\* getStoredWaitingTime
getStoredWaitingTime ==
    IF waitingTime # <<>> /\ TruthyString(waitingTime[1])
    THEN ParseInt(waitingTime[1]) ELSE DefaultWaitingMinutes

\* The first render of App over a stored document: the page is loaded at
\* instant t with the users of store, created in the order given, and no
\* stored waiting time; the session is observed until instant end.
Mount(variants, store, order, t, end) ==
    /\ variant \in variants
    /\ now = t
    /\ horizon = end
    /\ alcoholTracker = store
    /\ waitingTime = <<>>
    /\ userId = <<>>
    /\ showNewUserPrompt = FALSE
    /\ currentUser = NoUser
    /\ amount = <<>>
    /\ records = <<>>
    /\ suggestions = <<>>
    /\ isInputActive = FALSE
    /\ waitingMinutes = getStoredWaitingTime
    /\ view = Derive(NoUser, <<>>, waitingMinutes)
    /\ download = <<>>
    /\ crashed = FALSE
    /\ creationOrder = order
    /\ lastOp = "init"

\* A fresh installation: both localStorage items absent.
Init == Mount({"simple", "rich"}, <<>>, <<>>, 0, MaxNow)

\* Time passes.
Tick ==
    /\ now < horizon
    /\ now' = now + 1
    /\ lastOp' = "tick"
    /\ UNCHANGED <<variant, alcoholTracker, userId, showNewUserPrompt, currentUser,
                   amount, records, suggestions, isInputActive, waitingTime,
                   waitingMinutes, view, download, crashed, horizon, creationOrder>>

\* onFocus of the User ID field (rich variant)
Focus ==
    /\ ~crashed
    /\ variant = "rich"
    /\ ~isInputActive
    /\ isInputActive' = TRUE
    /\ view' = Derive(currentUser, records, waitingMinutes)
    /\ lastOp' = "focus"
    /\ UNCHANGED <<variant, now, alcoholTracker, userId, showNewUserPrompt, currentUser,
                   amount, records, suggestions, waitingTime, waitingMinutes,
                   download, crashed, horizon, creationOrder>>

\* onChange of the User ID field, followed by the suggestions effect
SetUserId(v) ==
    /\ ~crashed
    /\ variant = "rich" => isInputActive
    /\ v # userId
    /\ userId' = v
    /\ suggestions' = SuggestionsAfter(v, suggestions)
    /\ view' = Derive(currentUser, records, waitingMinutes)
    /\ lastOp' = "setUserId"
    /\ UNCHANGED <<variant, now, alcoholTracker, showNewUserPrompt, currentUser,
                   amount, records, isInputActive, waitingTime, waitingMinutes,
                   download, crashed, horizon, creationOrder>>

\* onChange of the amount field (rendered while currentUser is truthy): a
\* number input's value is the text when it is a valid floating-point number
\* and the empty string otherwise.
SetAmount(raw) ==
    /\ ~crashed
    /\ Truthy(currentUser)
    /\ amount' = NumberInputValue(raw)
    /\ amount' # amount
    /\ view' = Derive(currentUser, records, waitingMinutes)
    /\ lastOp' = "setAmount"
    /\ UNCHANGED <<variant, now, alcoholTracker, userId, showNewUserPrompt, currentUser,
                   records, suggestions, isInputActive, waitingTime, waitingMinutes,
                   download, crashed, horizon, creationOrder>>

\* handleSearch(selectedId), then the render and the suggestions effect
handleSearch(selectedId) ==
    LET users == getStoredUsers
        kind  == ReadKind(users, selectedId)
        newId == IF variant = "rich" THEN selectedId ELSE userId
    IN  /\ IF kind # "undefined"
           THEN /\ currentUser' = Some(selectedId)
                   \* setRecords(value): a function is taken as an updater and
                   \* Object(records) is records itself
                /\ records' = CASE kind = "array" -> GetOwn(users, selectedId)
                                [] kind = "function" -> records
                                [] kind = "object" -> NotAnArray
                /\ showNewUserPrompt' = FALSE
                /\ userId' = newId
                /\ suggestions' = SuggestionsAfter(newId, <<>>)
                /\ lastOp' = "search.found"
           ELSE /\ showNewUserPrompt' = TRUE
                /\ currentUser' = NoUser
                /\ records' = <<>>
                /\ lastOp' = "search.missing"
                /\ UNCHANGED <<userId, suggestions>>
        \* records.reduce in the render throws when records is no array
        /\ crashed' = (records' = NotAnArray)
        /\ view' = IF crashed' THEN view ELSE Derive(currentUser', records', waitingMinutes)
        /\ UNCHANGED <<variant, now, alcoholTracker, amount, isInputActive, waitingTime,
                       waitingMinutes, download, horizon, creationOrder>>

\* The Search button
Search ==
    /\ ~crashed
    /\ handleSearch(userId)

\* handleSuggestionClick: a click on an entry of the suggestions dropdown
handleSuggestionClick ==
    /\ ~crashed
    /\ variant = "rich"
    /\ isInputActive
    /\ \E i \in 1..Len(suggestions) : handleSearch(suggestions[i])

\* handleCreateUser: the button of the new-user prompt
handleCreateUser ==
    LET users == Assign(getStoredUsers, userId, <<>>)
    IN  /\ ~crashed
        /\ showNewUserPrompt
        /\ HasOwn(getStoredUsers, userId) \/ userId = ProtoKey
              \/ Len(getStoredUsers) < MaxUsers
        /\ saveUsers(users)
        /\ currentUser' = Some(userId)
        /\ records' = <<>>
        /\ showNewUserPrompt' = FALSE
        /\ view' = Derive(currentUser', records', waitingMinutes)
        /\ creationOrder' = IF HasOwn(users, userId) /\ ~HasOwn(getStoredUsers, userId)
                            THEN Append(creationOrder, userId) ELSE creationOrder
        /\ lastOp' = "create"
        /\ UNCHANGED <<variant, now, userId, amount, suggestions, isInputActive,
                       waitingTime, waitingMinutes, download, crashed, horizon>>

\* if (!amount || !currentUser) return;
ReturnsEarlyWithoutAmountTest(a, u) == ~Truthy(u)
ReturnsEarly(a, u) == ~TruthyString(a) \/ ~Truthy(u)

\* handleAddRecord: the submit event of the add-record form
handleAddRecord ==
    LET users == getStoredUsers
        id    == currentUser[1]
        kind  == ReadKind(users, id)
        newRecord == [timestamp |-> ToISOString(now), amount |-> ParseAmount(amount)]
        list  == (IF kind = "array" THEN GetOwn(users, id) ELSE <<>>) \o <<newRecord>>
    IN  /\ ~crashed
        /\ FormValid(amount)
        /\ IF ReturnsEarly(amount, currentUser)
           THEN /\ lastOp' = "add.ignored"
                /\ UNCHANGED <<alcoholTracker, records, amount, view>>
           ELSE IF kind \in {"function", "object"}
           THEN \* [...users[currentUser]] throws: the value is not iterable
                /\ lastOp' = "add.threw"
                /\ UNCHANGED <<alcoholTracker, records, amount, view>>
           ELSE /\ TotalRecords(users) < MaxRecords
                /\ saveUsers(Assign(users, id, list))
                /\ records' = list
                /\ amount' = <<>>
                /\ view' = Derive(currentUser, records', waitingMinutes)
                /\ lastOp' = "add.appended"
        /\ UNCHANGED <<variant, now, userId, showNewUserPrompt, currentUser,
                       suggestions, isInputActive, waitingTime, waitingMinutes,
                       download, crashed, horizon, creationOrder>>

\* saveWaitingTime: minutes.toString()
RECURSIVE NumberToString(_)
NumberToString(n) ==
    IF n < 10 THEN <<Digits[n + 1]>>
    ELSE NumberToString(n \div 10) \o <<Digits[(n % 10) + 1]>>

\* handleWaitingTimeChange: onChange of the waiting-time field (a number input)
handleWaitingTimeChange(raw) ==
    LET newTime == ParseInt(NumberInputValue(raw))
    IN  /\ ~crashed
        /\ variant = "rich"
        /\ IF newTime > 0
           THEN /\ waitingMinutes' = newTime
                /\ waitingTime' = <<NumberToString(newTime)>>
                /\ view' = Derive(currentUser, records, waitingMinutes')
                /\ lastOp' = "waiting.set"
           ELSE /\ lastOp' = "waiting.ignored"
                /\ UNCHANGED <<waitingMinutes, waitingTime, view>>
        /\ UNCHANGED <<variant, now, alcoholTracker, userId, showNewUserPrompt,
                       currentUser, amount, records, suggestions, isInputActive,
                       download, crashed, horizon, creationOrder>>

-----------------------------------------------------------------------------
\* The all-users export. A row is the array pushed to csvRows with its fixed
\* text named by a tag: <<"header">> for the column titles, <<"record", userId,
\* date, time, amount>>, <<>> for the empty row, <<"total", userId, sum>> for
\* 'Total for <id>' and <<"grand", sum>> for 'Grand Total'; amounts and sums
\* are the texts written.

\* record.amount.toFixed(1) in the rich variant; the Number's own string in
\* the simple one (an integer has no decimal point, null joins as nothing)
ToFixed1(n) == NumberToString(n \div TenthsPerMl) \o <<".", Digits[(n % TenthsPerMl) + 1]>>
NumberText(n) ==
    IF n = JSONNull THEN <<>>
    ELSE IF n % TenthsPerMl = 0 THEN NumberToString(n \div TenthsPerMl)
    ELSE ToFixed1(n)
AmountText(n) == IF variant = "rich" THEN ToFixed1(n) ELSE NumberText(n)

MlSuffix == <<" ", "m", "l">>

RECURSIVE RecordRows(_, _)
RecordRows(id, recs) ==
    IF Len(recs) = 0 THEN <<>>
    ELSE << <<"record", id, FormatDate(Head(recs).timestamp),
              FormatTime(Head(recs).timestamp), AmountText(Head(recs).amount)>> >>
         \o RecordRows(id, Tail(recs))

\* The rows of one entry of Object.entries(users)
EntryRowsKeepingEmpty(id, recs) ==
    RecordRows(id, recs)
    \o << <<>>, <<"total", id, AmountText(SumAmounts(recs)) \o MlSuffix>>, <<>> >>
EntryRows(id, recs) ==
    IF Len(recs) = 0 THEN <<>>
    ELSE RecordRows(id, recs)
         \o << <<>>, <<"total", id, AmountText(SumAmounts(recs)) \o MlSuffix>>, <<>> >>

\* Object.entries(users).forEach(([userId, records]) => ...)
RECURSIVE UserRows(_)
UserRows(entries) ==
    IF Len(entries) = 0 THEN <<>>
    ELSE EntryRows(Head(entries).key, Head(entries).value) \o UserRows(Tail(entries))

\* Object.values(users).reduce((total, records) => total + (sum of records), 0)
RECURSIVE GrandTotal(_)
GrandTotal(entries) ==
    IF Len(entries) = 0 THEN 0
    ELSE Plus(GrandTotal(SubSeq(entries, 1, Len(entries) - 1)),
              SumAmounts(entries[Len(entries)].value))

csvRowsAllUsers(users) ==
    << <<"header">> >> \o UserRows(users)
        \o << <<"grand", AmountText(GrandTotal(users)) \o MlSuffix>> >>

\* downloadAllUsersCSV: the button is always rendered
downloadAllUsersCSV ==
    /\ ~crashed
    /\ download' = [ name |-> <<"all_users", FormatDate(now)>>,
                     rows |-> csvRowsAllUsers(getStoredUsers) ]
    /\ lastOp' = "exportAll"
    /\ UNCHANGED <<variant, now, alcoholTracker, userId, showNewUserPrompt, currentUser,
                   amount, records, suggestions, isInputActive, waitingTime,
                   waitingMinutes, view, crashed, horizon, creationOrder>>

-----------------------------------------------------------------------------
\* What is typed.

IdEmpty == <<>>
IdBlank == <<" ">>
IdAl == <<"a","l">>
IdAL == <<"A","L">>
IdOne == <<"1">>

UserIdInputs == {IdAl, ConstructorKey, ProtoKey}
AmountInputs == {<<"x">>, <<"5">>, <<"1","e","1">>}

Next ==
    \/ Tick
    \/ Focus
    \/ \E v \in UserIdInputs : SetUserId(v)
    \/ \E raw \in AmountInputs : SetAmount(raw)
    \/ Search
    \/ handleSuggestionClick
    \/ handleCreateUser
    \/ handleAddRecord

Spec == Init /\ [][Next]_vars

-----------------------------------------------------------------------------
\* Sessions over a stored document: the page is loaded with users kept in
\* localStorage by earlier sessions.

MaxStoredUsers == 3

Range(s) == {s[i] : i \in 1..Len(s)}

\* The sequences of at most n distinct IDs of S: the orders in which users
\* can have been created.
RECURSIVE Arrangements(_, _)
Arrangements(S, n) ==
    IF n = 0 THEN {<<>>}
    ELSE LET shorter == Arrangements(S, n - 1)
         IN  shorter \cup UNION {{Append(c, id) : id \in S \ Range(c)} : c \in shorter}

\* The document after the users of order were created one after the other
\* (users[id] = []) and user order[i] was given the records lists[i].
RECURSIVE StoreOf(_, _)
StoreOf(order, lists) ==
    IF Len(order) = 0 THEN <<>>
    ELSE DefineOwn(StoreOf(SubSeq(order, 1, Len(order) - 1), lists),
                   order[Len(order)], lists[Len(order)])

IdTwo == <<"2">>
IdTen == <<"1", "0">>

Rec(t, a) == [timestamp |-> ToISOString(t), amount |-> a]

\* The all-users export over stored documents.

ExportIds == {IdAl, IdTwo, IdTen}
ExportLists ==
    { <<>>,
      <<Rec(0, 5 * TenthsPerMl)>>,
      <<Rec(1, 10 * TenthsPerMl), Rec(TicksPerDay + 1, 2 * TenthsPerMl)>>,
      <<Rec(2, 2 * TenthsPerMl + 5)>> }

\* The simple variant's form admits whole millilitres only.
Admits(recs) ==
    \A j \in 1..Len(recs) : variant = "simple" => recs[j].amount % TenthsPerMl = 0

InitExport ==
    \E order \in Arrangements(ExportIds, MaxStoredUsers) :
        \E lists \in [1..Len(order) -> ExportLists] :
            /\ Mount({"simple", "rich"}, JSONRoundTrip(StoreOf(order, lists)), order, 0, 0)
            /\ \A i \in 1..Len(order) : Admits(lists[i])

NextExport == downloadAllUsersCSV

SpecExport == InitExport /\ [][NextExport]_vars

\* Suggestions over stored documents (the rich variant's dropdown).

IdAlice == <<"a", "l", "i", "c", "e">>
IdBob == <<"b", "o", "b">>
IdALex == <<"A", "L", "e", "x">>
IdA1 == <<"a", "1">>

SuggestIds == {IdAlice, IdBob, IdALex, IdBlank, IdOne, IdTen, IdA1}
SuggestInputs == {IdEmpty, IdBlank, IdAL, IdOne, <<"B">>}

InitSuggest ==
    \E order \in Arrangements(SuggestIds, MaxStoredUsers) :
        Mount({"rich"}, JSONRoundTrip(StoreOf(order, [i \in 1..Len(order) |-> <<>>])),
              order, 0, 0)

NextSuggest ==
    \/ Focus
    \/ \E v \in SuggestInputs : SetUserId(v)

SpecSuggest == InitSuggest /\ [][NextSuggest]_vars

\* The derived values over a stored document, watched for a span of the
\* clock that starts around an instant where a value turns.

MaxWindow == 6

ScenarioRecords == <<Rec(0, 30 * TenthsPerMl), Rec(90 * TicksPerMinute, 20 * TenthsPerMl)>>
DerivedLists == {ScenarioRecords, <<Rec(30 * TicksPerMinute, 10 * TenthsPerMl)>>}
StartInstants ==
    { 90 * TicksPerMinute, 100 * TicksPerMinute - 1, 120 * TicksPerMinute - 1,
      150 * TicksPerMinute - 3, 210 * TicksPerMinute - 1 }
WaitingInputs == {<<"0">>, <<"1">>, <<"2">>, <<"x">>, <<"-", "1">>, <<"1", "e", "1">>}

InitDerived ==
    \E recs \in DerivedLists : \E t \in StartInstants :
        Mount({"simple", "rich"}, JSONRoundTrip(StoreOf(<<IdAlice>>, <<recs>>)),
              <<IdAlice>>, t, t + MaxWindow)

NextDerived ==
    \/ Tick
    \/ Focus
    \/ SetUserId(IdAlice)
    \/ Search
    \/ \E raw \in WaitingInputs : handleWaitingTimeChange(raw)

SpecDerived == InitDerived /\ [][NextDerived]_vars

-----------------------------------------------------------------------------
\* Properties.

IsPrefix(s, t) == Len(s) <= Len(t) /\ SubSeq(t, 1, Len(s)) = s

\* The store's record list for a user ID, <<>> when the ID is no key.
StoredList(o, k) == IF HasOwn(o, k) THEN GetOwn(o, k) ELSE <<>>

KeySet(o) == {o[i].key : i \in 1..Len(o)}

\* The number a number input holds for its (valid) text, in tenths.
EnteredAmount(a) == LiteralTenths(Literal(a))

\* C1: add-record with a current user selected and a valid amount extends that
\* user's stored list by exactly one record at the end, with timestamp = now
\* and the entered amount; every other user's stored list is unchanged, the
\* current user is unchanged, and the displayed record list equals the new
\* stored list of the current user.
C1_AddRecordAppends ==
    [][ (handleAddRecord /\ Truthy(currentUser) /\ TruthyString(amount))
        => /\ HasOwn(alcoholTracker', currentUser[1])
           /\ GetOwn(alcoholTracker', currentUser[1])
                = Append(StoredList(alcoholTracker, currentUser[1]),
                         [timestamp |-> now, amount |-> EnteredAmount(amount)])
           /\ KeySet(alcoholTracker') = KeySet(alcoholTracker) \cup {currentUser[1]}
           /\ \A k \in KeySet(alcoholTracker) \ {currentUser[1]} :
                 GetOwn(alcoholTracker', k) = GetOwn(alcoholTracker, k)
           /\ currentUser' = currentUser
           /\ records' = GetOwn(alcoholTracker', currentUser[1]) ]_vars

\* C3: over any sequence of operations, a user entry once present in the
\* store is never removed and only ever grows by appending: the stored list
\* before a step is a prefix of the stored list after it.
C3_EntriesOnlyGrow ==
    [][ \A k \in KeySet(alcoholTracker) :
           /\ HasOwn(alcoholTracker', k)
           /\ IsPrefix(GetOwn(alcoholTracker, k), GetOwn(alcoholTracker', k)) ]_vars

\* Texts of AmountInputs that are numbers.
NumericTexts == {<<"5">>, <<"2", ".", "5">>, <<"1", "e", "1">>, <<"-", "5">>}

\* C8: add-record is a no-op when the amount is empty or non-numeric (a
\* non-numeric text leaves the amount empty) or when no user is currently
\* selected: the store document, the current user and the displayed record
\* list are unchanged, and no record is appended.
C8_AddRecordIgnored ==
    [][ /\ (handleAddRecord /\ (amount = <<>> \/ currentUser = NoUser))
            => /\ UNCHANGED <<alcoholTracker, currentUser, records>>
               /\ lastOp' = "add.ignored"
        /\ \A raw \in AmountInputs \ NumericTexts :
              SetAmount(raw) => amount' = <<>> ]_vars

C8_Witness ==
    /\ lastOp = "add.ignored"
    /\ Truthy(currentUser)
    /\ amount = <<>>
    /\ Len(records) > 0

\* C2: after create-user with ID id the store maps id to the empty list,
\* whether or not id was already present; every other user's list is
\* unchanged; and a lookup of id made right after it selects id with an empty
\* record list.
C2_CreateUserResets ==
    [][ /\ handleCreateUser
            => /\ HasOwn(alcoholTracker', userId)
               /\ StoredList(alcoholTracker', userId) = <<>>
               /\ KeySet(alcoholTracker') = KeySet(alcoholTracker) \cup {userId}
               /\ \A k \in KeySet(alcoholTracker) \ {userId} :
                     GetOwn(alcoholTracker', k) = GetOwn(alcoholTracker, k)
        /\ (lastOp = "create" /\ Search)
            => /\ currentUser' = Some(userId)
               /\ records' = <<>>
               /\ ~showNewUserPrompt' ]_vars

\* C9: search-by-id with ID id selects id as the current user and shows its
\* stored record list exactly when id is a key of the store mapping (also when
\* its list is empty); otherwise it enters the 'create new user' prompt state
\* with no current user and an empty displayed list. Either way the store
\* document is unchanged.
C9_SearchExactMatch ==
    [][ \A id \in UserIdInputs :
          (~crashed /\ handleSearch(id))
          => /\ IF id \in KeySet(alcoholTracker)
                THEN /\ currentUser' = Some(id)
                     /\ records' = GetOwn(alcoholTracker, id)
                     /\ ~showNewUserPrompt'
                ELSE /\ showNewUserPrompt'
                     /\ currentUser' = NoUser
                     /\ records' = <<>>
             /\ alcoholTracker' = alcoholTracker ]_vars

-----------------------------------------------------------------------------
\* The order of the users of a document.

\* The IDs of a set of array indices in ascending numeric order.
RECURSIVE Ascending(_)
Ascending(S) ==
    IF S = {} THEN <<>>
    ELSE LET least == CHOOSE k \in S : \A j \in S : DigitsValue(k) <= DigitsValue(j)
         IN  <<least>> \o Ascending(S \ {least})

IsOtherKey(k) == ~IsArrayIndex(k)

\* The key order of users created in the given order: the IDs that are array
\* indices first, in ascending numeric order, then the other IDs in the order
\* of their creation.
KeyOrder(order) ==
    Ascending({k \in Range(order) : IsArrayIndex(k)}) \o SelectSeq(order, IsOtherKey)

\* The sum of the amounts of the records of recs at the positions of I.
RECURSIVE IndexSum(_, _)
IndexSum(recs, I) ==
    IF I = {} THEN 0
    ELSE LET i == CHOOSE j \in I : TRUE
         IN  recs[i].amount + IndexSum(recs, I \ {i})

WholeSum(recs) == IndexSum(recs, 1..Len(recs))

\* The rows of the all-users export when the users are taken in the given
\* order.
RowsOfRecords(id, recs) ==
    [j \in 1..Len(recs) |->
        <<"record", id, FormatDate(recs[j].timestamp), FormatTime(recs[j].timestamp),
          AmountText(recs[j].amount)>>]

RECURSIVE RowsOfUsers(_)
RowsOfUsers(order) ==
    IF Len(order) = 0 THEN <<>>
    ELSE LET id == Head(order)
             recs == StoredList(alcoholTracker, id)
         IN  (IF Len(recs) = 0 THEN <<>>
              ELSE RowsOfRecords(id, recs)
                   \o << <<>>, <<"total", id, AmountText(WholeSum(recs)) \o MlSuffix>>, <<>> >>)
             \o RowsOfUsers(Tail(order))

\* The amount a total row reads as: the text before ' ml', in tenths.
ReadTotal(row) ==
    LET text == row[Len(row)]
    IN  ParseFloat(SubSeq(text, 1, Len(text) - Len(MlSuffix)))

RECURSIVE SumOfTotalRows(_)
SumOfTotalRows(rows) ==
    IF Len(rows) = 0 THEN 0
    ELSE (IF Len(Head(rows)) > 0 /\ Head(rows)[1] = "total" THEN ReadTotal(Head(rows)) ELSE 0)
         + SumOfTotalRows(Tail(rows))

\* The export written is the header, the rows of the users in the given
\* order, and a grand total that is the sum of the totals written; a user
\* without records is on no row.
ExportIs(order) ==
    LET rows == download.rows
    IN  /\ rows[1] = <<"header">>
        /\ SubSeq(rows, 2, Len(rows) - 1) = RowsOfUsers(order)
        /\ rows[Len(rows)][1] = "grand"
        /\ ReadTotal(rows[Len(rows)]) = SumOfTotalRows(rows)
        /\ \A i \in 1..Len(rows) :
              (Len(rows[i]) > 0 /\ rows[i][1] \in {"record", "total"})
                  => Len(StoredList(alcoholTracker, rows[i][2])) > 0

\* C7 (as stated): the all-users export is the header row, then for each user
\* with a non-empty record list, in the store's insertion order of users, one
\* row per record in list order prefixed with the user ID, a blank row, a
\* 'Total for <id>' row and a blank row, then a final 'Grand Total' row; users
\* with zero records produce no rows and no summary line, and the grand total
\* equals the sum of the per-user totals emitted.
C7_ExportInsertionOrder ==
    lastOp = "exportAll" => ExportIs(creationOrder)

\* C7 (amended): the same rows and totals, with the users taken in the order
\* Object.entries enumerates them: the IDs that are array indices first, in
\* ascending numeric order, then the other IDs in insertion order.
C7_ExportKeyOrder ==
    lastOp = "exportAll" => ExportIs(KeyOrder(creationOrder))

\* An export of two users with records and one without, where an array-index
\* ID was created after another ID.
C7_Witness ==
    /\ lastOp = "exportAll"
    /\ KeyOrder(creationOrder) # creationOrder
    /\ \E k \in KeySet(alcoholTracker) : Len(GetOwn(alcoholTracker, k)) = 0
    /\ Cardinality({k \in KeySet(alcoholTracker) : Len(GetOwn(alcoholTracker, k)) > 0}) = 2
    /\ \E k \in KeySet(alcoholTracker) : Len(GetOwn(alcoholTracker, k)) = 2

-----------------------------------------------------------------------------
\* Suggestions.

\* The lowercase form of id contains the lowercase form of partialId.
ContainsIgnoringCase(id, partialId) ==
    \E at \in 0..(Len(id) - Len(partialId)) :
        \A j \in 1..Len(partialId) : LowerChar(id[at + j]) = LowerChar(partialId[j])

RECURSIVE Matching(_, _)
Matching(order, partialId) ==
    IF Len(order) = 0 THEN <<>>
    ELSE (IF ContainsIgnoringCase(Head(order), partialId) THEN <<Head(order)>> ELSE <<>>)
         \o Matching(Tail(order), partialId)

OnlyWhiteSpace(s) == \A i \in 1..Len(s) : s[i] \in WhiteSpace

\* C10 (as stated): the suggestions for an input partialId are exactly the
\* existing user IDs whose lowercase form contains the lowercase form of
\* partialId, in the store's insertion order and in their original case; the
\* empty input yields the empty sequence.
C10_SuggestInsertionOrder ==
    lastOp = "setUserId"
    => suggestions = IF userId = <<>> THEN <<>> ELSE Matching(creationOrder, userId)

\* C10 (amended): for an input that is not empty or only white space the
\* suggestions are those IDs in the store's key order (array-index IDs first,
\* in ascending numeric order, then the other IDs in insertion order); an
\* empty or white-space-only input yields the empty sequence.
C10_SuggestKeyOrder ==
    lastOp = "setUserId"
    => suggestions = IF OnlyWhiteSpace(userId) THEN <<>>
                     ELSE Matching(KeyOrder(creationOrder), userId)

\* 'AL' typed against the users alice, bob, ALex gives alice, ALex.
C10_Witness ==
    /\ lastOp = "setUserId"
    /\ creationOrder = <<IdAlice, IdBob, IdALex>>
    /\ userId = IdAL
    /\ suggestions = <<IdAlice, IdALex>>

-----------------------------------------------------------------------------
\* The derived values.

Max(a, b) == IF a >= b THEN a ELSE b

\* The whole minutes elapsed from instant last to the later instant t.
WholeMinutes(last, t) == (t - last) \div TicksPerMinute

\* C4: the waiting time shown equals waitingMinutes minus the whole minutes
\* elapsed between the last record's timestamp and now, clamped to 0, and is
\* never negative; records at T0 and T0+90min with waitingMinutes = 60 seen at
\* T0+100min give 10 minutes since the last record and a waiting time of 50.
C4_WaitingTimeIsRemainder ==
    view.lastConsumptionTime # <<>>
    => /\ view.waitingTimeNeeded >= 0
       /\ view.waitingTimeNeeded =
             Max(0, waitingMinutes
                    - WholeMinutes(view.lastConsumptionTime[1], view.renderedAt))
       /\ (/\ records = ScenarioRecords
           /\ waitingMinutes = 60
           /\ view.renderedAt = 100 * TicksPerMinute)
          => /\ view.minutesSinceLastConsumption = <<10>>
             /\ view.waitingTimeNeeded = 50

\* C5: for a fixed last timestamp and waitingMinutes the waiting time never
\* increases from one render to a later one, it is greater than 0 at every
\* instant strictly before last + waitingMinutes, and it is 0 from that
\* instant onward.
C5_WaitingTimeFloorsAtDeadline ==
    [][ view'.lastConsumptionTime # <<>>
        => LET deadline == view'.lastConsumptionTime[1] + waitingMinutes' * TicksPerMinute
           IN  /\ (/\ view.lastConsumptionTime = view'.lastConsumptionTime
                   /\ waitingMinutes' = waitingMinutes
                   /\ view'.renderedAt >= view.renderedAt)
                  => view'.waitingTimeNeeded <= view.waitingTimeNeeded
               /\ view'.renderedAt < deadline => view'.waitingTimeNeeded > 0
               /\ view'.renderedAt >= deadline => view'.waitingTimeNeeded = 0 ]_vars

HourWindows == 0..3

\* The positions of the records of recs later than cutoff.
After(recs, cutoff) == {i \in 1..Len(recs) : recs[i].timestamp > cutoff}

\* C6: for every window hoursAgo, the recent consumption of the displayed
\* records is the sum of the amounts of exactly those records whose timestamp
\* is strictly greater than now - hoursAgo hours (a record at the cutoff is
\* excluded, an empty list gives 0); so is the two-hour figure of each render.
C6_RecentConsumptionStrictCutoff ==
    /\ \A hoursAgo \in HourWindows :
          calculateRecentConsumption(records, hoursAgo)
              = IndexSum(records, After(records, now - hoursAgo * TicksPerHour))
    /\ view.last2HoursConsumption
          = IndexSum(records, After(records, view.renderedAt - 2 * TicksPerHour))
    /\ Len(records) = 0 => view.last2HoursConsumption = 0

\* A render exactly two hours after the first of two records: only the second
\* is counted.
C6_Witness ==
    /\ Len(records) = 2
    /\ records[1].timestamp = view.renderedAt - 2 * TicksPerHour
    /\ records[2].timestamp > records[1].timestamp
    /\ view.last2HoursConsumption = records[2].amount
    /\ view.totalConsumption = records[1].amount + records[2].amount

-----------------------------------------------------------------------------
\* The users of the store.

\* C11: in every reachable state every key of the store mapping is a
\* non-empty string: no sequence of search and create-user operations inserts
\* a user whose ID is the empty string.
C11_KeysNonEmpty ==
    \A k \in KeySet(alcoholTracker) : Len(k) > 0

-----------------------------------------------------------------------------
\* The waiting-minutes configuration.

\* The number a text typed into the waiting-time field stands for, in tenths;
\* NaN when the text is no number.
TypedValue(raw) ==
    IF ValidFloatingPoint(raw) THEN EnteredAmount(raw) ELSE NaN

\* The persisted waiting minutes, as read back from the stored item.
PersistedMinutes(item) == IF item = <<>> THEN <<>> ELSE <<ParseInt(item[1])>>

\* C12: the waiting minutes are a positive integer in every reachable state,
\* 60 when nothing is stored; change-waiting-time with a value that is 0,
\* negative or non-numeric changes neither the session value nor the persisted
\* value, while a value > 0 sets both to that value.
C12_WaitingMinutesPositive ==
    [][ /\ waitingMinutes' \in Nat \ {0}
        /\ waitingTime' = <<>> => waitingMinutes' = DefaultWaitingMinutes
        /\ \A raw \in WaitingInputs :
              handleWaitingTimeChange(raw)
              => IF TypedValue(raw) # NaN /\ TypedValue(raw) > 0
                 THEN /\ waitingMinutes' * TenthsPerMl = TypedValue(raw)
                      /\ PersistedMinutes(waitingTime') = <<waitingMinutes'>>
                 ELSE UNCHANGED <<waitingMinutes, waitingTime>> ]_vars

-----------------------------------------------------------------------------
\* The current user and the store.

\* C13: in every state reachable by a single session through search,
\* select-suggestion, create-user and add-record, whenever a current user is
\* selected that user is a key of the store mapping and the displayed record
\* list equals the store's record list for that user.
C13_CurrentUserIsStored ==
    Truthy(currentUser)
    => /\ currentUser[1] \in KeySet(alcoholTracker)
       /\ records = StoredList(alcoholTracker, currentUser[1])

====
